---- MODULE Spec2Model ----
(***************************************************************************)
(* Model of src/port/pg_numa.c: the NUMA portability routines.             *)
(*                                                                         *)
(* The file is compiled in one of two ways: with USE_LIBNUMA every routine *)
(* forwards to libnuma, without it every routine is an empty wrapper.  The *)
(* host (kernel, libnuma's view of it, the engine's huge page settings) is *)
(* chosen in Init and is the "host configuration" the routines query.      *)
(*                                                                         *)
(* Spec     : the five query routines, called in any order by the engine,  *)
(*            over every NUMA configuration of the host.                   *)
(* SpecPage : the same routines over every page-size configuration.        *)
(* SpecLog  : the two logging adapters libnuma calls back (numa_warn and   *)
(*            numa_error), one statement per step.                         *)
(***************************************************************************)
EXTENDS Integers, Sequences, FiniteSets, TLC

VARIABLES
    host,       \* the host configuration (fixed by Init)
    pageNode,   \* kernel: page address -> NUMA node hosting it, or NotPresent
    status,     \* the caller's status array (int *status)
    call,       \* the last routine called, its arguments and its return value
    first,      \* history: the first value each availability routine returned
    errno,      \* the C library's errno
    log,        \* the engine's diagnostic channel: the messages emitted so far
    pc,         \* position of the libnuma callback being executed
    frame,      \* arguments and locals of the callback being executed
    entry,      \* history: errno and Len(log) when the callback was entered
    origin      \* history: for each message of log, the warning number behind it

vars == <<host, pageNode, status, call, first, errno, log, pc, frame, entry, origin>>
apiVars == <<host, pageNode, status, call, first>>
logVars == <<errno, log, pc, frame, entry, origin>>

(***************************************************************************)
(* Bounds of the model.                                                    *)
(***************************************************************************)
MaxNode == 1        \* NUMA nodes are numbered 0..MaxNode
MaxPages == 2       \* page addresses 1..MaxPages; status arrays of that length
MaxPageExp == 2     \* OS page sizes are 2^1 .. 2^MaxPageExp
SizeBits == 6       \* width of Size (size_t) in the model
MaxErrno == 2       \* errno takes the values 0..MaxErrno
MaxLog == 2         \* the callbacks are followed until MaxLog messages are out
MaxWarnNum == 2     \* libnuma's warning numbers are 1..MaxWarnNum
MaxOverflow == 1    \* messages are up to MaxOverflow bytes longer than the buffer

(***************************************************************************)
(* Size arithmetic: a C int or long converted to the unsigned type Size.   *)
(***************************************************************************)
ToSize(x) == x % (2 ^ SizeBits)

IsPowerOfTwo(x) == \E k \in 0..(SizeBits - 1) : x = 2 ^ k

(***************************************************************************)
(* The host.                                                               *)
(***************************************************************************)
NotPresent == MaxNode + 1   \* marks a page no node hosts (never touched)
ENOENT == 2
NULL == <<>>

Addrs == 1..MaxPages
Pids == {0, 1, 2}           \* 0: the calling process
LivePids == {0, 1}          \* 2 names no process

HugePagesStatus ==
    {"HUGE_PAGES_OFF", "HUGE_PAGES_ON", "HUGE_PAGES_TRY", "HUGE_PAGES_UNKNOWN"}

PageSizes == {2 ^ k : k \in 1..MaxPageExp}
HugePageSizes == {2 ^ k : k \in 1..(MaxPageExp + 1)}

\* kernelNuma: the NUMA system calls work, so numa_available() succeeds.
\* maxConfiguredNode: the highest node libnuma found in the system's node
\* directory when it was loaded (0 when there is none).  It does not depend
\* on the system calls: a host that blocks them still lists its nodes.
\* sysconfFails: sysconf(_SC_PAGESIZE) returns its failure value, -1.
HostOK(h) ==
    /\ h.hugePageSize >= h.osPageSize
    /\ h.win32 => (h.build = "stub" /\ ~h.sysconfFails)
    /\ h.build = "stub" => (~h.kernelNuma /\ h.maxConfiguredNode = 0)

Hosts ==
    { h \in [ build : {"libnuma", "stub"},
              win32 : BOOLEAN,
              sysconfFails : BOOLEAN,
              osPageSize : PageSizes,
              huge_pages_status : HugePagesStatus,
              hugePageSize : HugePageSizes,
              kernelNuma : BOOLEAN,
              maxConfiguredNode : 0..MaxNode ] : HostOK(h) }

Placements(h) ==
    IF h.build = "stub"
    THEN {[a \in Addrs |-> 0]}
    ELSE [Addrs -> (0..h.maxConfiguredNode) \cup {NotPresent}]

(***************************************************************************)
(* libnuma and the C library, as the routines call them.                   *)
(***************************************************************************)
numa_available == IF host.kernelNuma THEN 0 ELSE -1

numa_max_node == host.maxConfiguredNode

\* move_pages(2) through libnuma.  nodes = NULL asks where the pages are;
\* otherwise page i is moved to nodes[i].  The result is the return value,
\* the status array and the page placement after the call.
numa_move_pages(pid, count, pages, nodes, st, flags) ==
    IF ~host.kernelNuma \/ pid \notin LivePids
    THEN [ret |-> -1, status |-> st, pageNode |-> pageNode]
    ELSE LET moved ==
                 IF nodes = NULL
                 THEN pageNode
                 ELSE [a \in Addrs |->
                         IF \E i \in 1..count : pages[i] = a /\ pageNode[a] # NotPresent
                         THEN nodes[CHOOSE i \in 1..count : pages[i] = a]
                         ELSE pageNode[a]]
             answer(i) ==
                 IF moved[pages[i]] = NotPresent THEN -ENOENT ELSE moved[pages[i]]
         IN  [ret |-> 0,
              status |-> [i \in DOMAIN st |-> IF i <= count THEN answer(i) ELSE st[i]],
              pageNode |-> moved]

sysconf_SC_PAGESIZE == IF host.sysconfFails THEN -1 ELSE host.osPageSize

GetSystemInfo_dwPageSize == host.osPageSize

\* GetHugePageSize(&size, NULL) overwrites size with the huge page size.
GetHugePageSize(size) == host.hugePageSize

(***************************************************************************)
(* The routines, USE_LIBNUMA build.                                        *)
(***************************************************************************)
Mut_init_once ==
    IF first["pg_numa_init"].set THEN 0 ELSE numa_available

pg_numa_init_libnuma ==
    LET r == numa_available IN r

Mut_query_pages_moves(pid, count, pages, st) ==
    numa_move_pages(pid, count, pages, [i \in 1..count |-> 0], st, 0)

pg_numa_query_pages_libnuma(pid, count, pages, st) ==
    numa_move_pages(pid, count, pages, NULL, st, 0)

pg_numa_get_max_node_libnuma == numa_max_node

pg_numa_get_pagesize_libnuma ==
    LET os_page_size == ToSize(sysconf_SC_PAGESIZE)
    IN  IF host.huge_pages_status = "HUGE_PAGES_ON"
        THEN GetHugePageSize(os_page_size)
        ELSE os_page_size

(***************************************************************************)
(* The routines, build without libnuma ("Empty wrappers").                 *)
(***************************************************************************)
pg_numa_init_stub == -1

Mut_query_pages_stub_fills(pid, count, pages, st) ==
    [ret |-> 0,
     status |-> [i \in DOMAIN st |-> IF i <= count THEN 0 ELSE st[i]],
     pageNode |-> pageNode]

pg_numa_query_pages_stub(pid, count, pages, st) ==
    [ret |-> 0, status |-> st, pageNode |-> pageNode]

pg_numa_get_max_node_stub == 0

pg_numa_get_pagesize_stub ==
    LET os_page_size ==
            IF host.win32 THEN ToSize(GetSystemInfo_dwPageSize)
                          ELSE ToSize(sysconf_SC_PAGESIZE)
    IN  IF host.huge_pages_status = "HUGE_PAGES_ON"
        THEN GetHugePageSize(os_page_size)
        ELSE os_page_size

(***************************************************************************)
(* The routines as the engine links them (#ifdef USE_LIBNUMA ... #else).   *)
(***************************************************************************)
pg_numa_init ==
    IF host.build = "libnuma" THEN pg_numa_init_libnuma ELSE pg_numa_init_stub

pg_numa_query_pages(pid, count, pages, st) ==
    IF host.build = "libnuma"
    THEN pg_numa_query_pages_libnuma(pid, count, pages, st)
    ELSE pg_numa_query_pages_stub(pid, count, pages, st)

pg_numa_get_max_node ==
    IF host.build = "libnuma" THEN pg_numa_get_max_node_libnuma
                              ELSE pg_numa_get_max_node_stub

pg_numa_get_pagesize ==
    IF host.build = "libnuma" THEN pg_numa_get_pagesize_libnuma
                              ELSE pg_numa_get_pagesize_stub

\* PG_RETURN_BOOL(x): the Datum 1 for true, 0 for false.
BoolGetDatum(b) == IF b THEN 1 ELSE 0

Mut_available_nonzero == BoolGetDatum(pg_numa_init # 0)

pg_numa_available == BoolGetDatum(pg_numa_init # -1)

(***************************************************************************)
(* Calls of the routines.                                                  *)
(***************************************************************************)
NoArgs == [pid |-> 0, count |-> 0, pages |-> <<>>]
NoCall == [op |-> "none", args |-> NoArgs, ret |-> 0]
NotYet == [set |-> FALSE, val |-> 0]

Remember(op, v) ==
    IF first[op].set THEN first ELSE [first EXCEPT ![op] = [set |-> TRUE, val |-> v]]

\* A batch of count consecutive page addresses.
Batches ==
    { [i \in 1..n |-> a + i - 1] : <<a, n>> \in
        { an \in Addrs \X (0..MaxPages) : an[1] + an[2] - 1 <= MaxPages } }

CallInit ==
    /\ call' = [op |-> "pg_numa_init", args |-> NoArgs, ret |-> pg_numa_init]
    /\ first' = Remember("pg_numa_init", pg_numa_init)
    /\ UNCHANGED <<host, pageNode, status>>
    /\ UNCHANGED logVars

CallAvailable ==
    /\ call' = [op |-> "pg_numa_available", args |-> NoArgs, ret |-> pg_numa_available]
    /\ first' = Remember("pg_numa_available", pg_numa_available)
    /\ UNCHANGED <<host, pageNode, status>>
    /\ UNCHANGED logVars

CallQueryPages ==
    /\ \E pid \in Pids, pages \in Batches :
          LET r == pg_numa_query_pages(pid, Len(pages), pages, status)
          IN  /\ call' = [op |-> "pg_numa_query_pages",
                          args |-> [pid |-> pid, count |-> Len(pages), pages |-> pages],
                          ret |-> r.ret]
              /\ status' = r.status
              /\ pageNode' = r.pageNode
    /\ UNCHANGED <<host, first>>
    /\ UNCHANGED logVars

CallGetMaxNode ==
    /\ call' = [op |-> "pg_numa_get_max_node", args |-> NoArgs, ret |-> pg_numa_get_max_node]
    /\ UNCHANGED <<host, pageNode, status, first>>
    /\ UNCHANGED logVars

CallGetPagesize ==
    /\ call' = [op |-> "pg_numa_get_pagesize", args |-> NoArgs, ret |-> pg_numa_get_pagesize]
    /\ UNCHANGED <<host, pageNode, status, first>>
    /\ UNCHANGED logVars

(***************************************************************************)
(* The engine's services the logging adapters use (utils/elog.h,           *)
(* lib/stringinfo.h).                                                      *)
(***************************************************************************)
WARNING == 19
ERROR == 21
ERRCODE_EXTERNAL_ROUTINE_EXCEPTION == 515   \* MAKE_SQLSTATE('3','8','0','0','0')
ERRCODE_WARNING == 64                       \* MAKE_SQLSTATE('0','1','0','0','0')
ERRCODE_INTERNAL_ERROR == 2600              \* MAKE_SQLSTATE('X','X','0','0','0')
STRINGINFO_DEFAULT_SIZE == 1024

Errnos == 0..MaxErrno
WarnNums == 1..MaxWarnNum
Wheres == {"mbind", "set_mempolicy"}
\* Lengths of the text a warning's format and arguments expand to.
MsgLens == {0, 1} \cup ((STRINGINFO_DEFAULT_SIZE - 1)..(STRINGINFO_DEFAULT_SIZE + MaxOverflow))

\* initStringInfo: an empty buffer of the default size.
initStringInfo == [maxlen |-> STRINGINFO_DEFAULT_SIZE, len |-> 0]

\* appendStringInfoVA: appends the formatted text (n bytes) when it fits and
\* returns 0; otherwise leaves the buffer alone and returns the space needed.
appendStringInfoVA(msg, n) ==
    LET avail == msg.maxlen - msg.len
    IN  IF avail < 16 THEN [msg |-> msg, ret |-> 32]
        ELSE IF n < avail THEN [msg |-> [msg EXCEPT !.len = msg.len + n], ret |-> 0]
        ELSE [msg |-> msg, ret |-> n + 1]

RECURSIVE Doubled(_, _)
Doubled(newlen, needed) ==
    IF needed > newlen THEN Doubled(2 * newlen, needed) ELSE newlen

\* enlargeStringInfo: room for `needed` more bytes, by doubling.
enlargeStringInfo(msg, needed) ==
    LET total == needed + msg.len + 1
    IN  IF total <= msg.maxlen THEN msg
        ELSE [msg EXCEPT !.maxlen = Doubled(2 * msg.maxlen, total)]

\* ereport/elog: the message goes to the diagnostic channel; control comes
\* back to the caller unless the level is ERROR or above.
ereport(elevel, sqlerrcode, text) ==
    [log |-> Append(log, [elevel |-> elevel, sqlerrcode |-> sqlerrcode, text |-> text]),
     returns |-> elevel < ERROR]

elog(elevel, text) ==
    ereport(elevel,
            IF elevel >= ERROR THEN ERRCODE_INTERNAL_ERROR
            ELSE IF elevel = WARNING THEN ERRCODE_WARNING ELSE 0,
            text)

(***************************************************************************)
(* The logging adapters (USE_LIBNUMA, not FRONTEND).                       *)
(***************************************************************************)
NoMsg == [maxlen |-> 0, len |-> 0]
NoFrame == [fn |-> "none", num |-> 0, fmtLen |-> 0, where |-> "", olde |-> 0,
            needed |-> 0, msg |-> NoMsg]

\* numa_warn's report: ereport(WARNING, (errcode(...), errmsg_internal(...))).
numa_warn_report(num, msg) ==
    ereport(WARNING, ERRCODE_EXTERNAL_ROUTINE_EXCEPTION,
            [prefix |-> "libnuma: WARNING: ", body |-> "fmt", len |-> msg.len])

Mut_error_report_raises(where) ==
    elog(ERROR, [prefix |-> "libnuma: ERROR: ", body |-> where, len |-> Len(where)])

\* numa_error's report: elog(WARNING, "libnuma: ERROR: %s", where).
numa_error_report(where) ==
    elog(WARNING, [prefix |-> "libnuma: ERROR: ", body |-> where, len |-> Len(where)])

Mut_warn_keeps_errno(olde) == errno

\* errno = olde, the last statement of numa_warn.
numa_warn_restore(olde) == olde

\* errno = olde, the last statement of numa_error.
numa_error_restore(olde) == olde

\* A step that runs engine or C library code may leave any value in errno.
Clobber ==
    /\ errno' \in Errnos
    /\ entry' = [entry EXCEPT !.clobbered = @ \/ errno' # entry.errno]

\* libnuma calls numa_warn(num, fmt, ...); olde = errno.
LibCallsWarn ==
    /\ pc = "idle"
    /\ Len(log) < MaxLog
    /\ \E e \in Errnos, num \in WarnNums, n \in MsgLens :
          /\ errno' = e
          /\ frame' = [NoFrame EXCEPT !.fn = "numa_warn", !.num = num,
                                      !.fmtLen = n, !.olde = e]
          /\ entry' = [errno |-> e, logLen |-> Len(log), clobbered |-> FALSE]
    /\ pc' = "warn_init"
    /\ UNCHANGED <<log, origin>>
    /\ UNCHANGED apiVars

\* initStringInfo(&msg)
WarnInit ==
    /\ pc = "warn_init"
    /\ frame' = [frame EXCEPT !.msg = initStringInfo]
    /\ Clobber
    /\ pc' = "warn_append"
    /\ UNCHANGED <<log, origin>>
    /\ UNCHANGED apiVars

\* needed = appendStringInfoVA(&msg, fmt, ap); if (needed > 0) ...
WarnAppend ==
    /\ pc = "warn_append"
    /\ LET r == appendStringInfoVA(frame.msg, frame.fmtLen)
       IN  /\ frame' = [frame EXCEPT !.msg = r.msg, !.needed = r.ret]
           /\ pc' = IF r.ret > 0 THEN "warn_enlarge" ELSE "warn_report"
    /\ Clobber
    /\ UNCHANGED <<log, origin>>
    /\ UNCHANGED apiVars

\* enlargeStringInfo(&msg, needed); appendStringInfoVA(&msg, fmt, ap)
WarnEnlarge ==
    /\ pc = "warn_enlarge"
    /\ LET r == appendStringInfoVA(enlargeStringInfo(frame.msg, frame.needed),
                                   frame.fmtLen)
       IN  frame' = [frame EXCEPT !.msg = r.msg]
    /\ Clobber
    /\ pc' = "warn_report"
    /\ UNCHANGED <<log, origin>>
    /\ UNCHANGED apiVars

\* ereport(WARNING, ...)
WarnReport ==
    /\ pc = "warn_report"
    /\ LET r == numa_warn_report(frame.num, frame.msg)
       IN  /\ log' = r.log
           /\ pc' = IF r.returns THEN "warn_restore" ELSE "aborted"
    /\ origin' = Append(origin, frame.num)
    /\ Clobber
    /\ UNCHANGED frame
    /\ UNCHANGED apiVars

\* pfree(msg.data); errno = olde; and numa_warn returns
WarnRestore ==
    /\ pc = "warn_restore"
    /\ frame' = [frame EXCEPT !.msg = NoMsg]
    /\ errno' = numa_warn_restore(frame.olde)
    /\ pc' = "returned"
    /\ UNCHANGED <<log, entry, origin>>
    /\ UNCHANGED apiVars

\* libnuma calls numa_error(where); olde = errno.
LibCallsError ==
    /\ pc = "idle"
    /\ Len(log) < MaxLog
    /\ \E e \in Errnos, where \in Wheres :
          /\ errno' = e
          /\ frame' = [NoFrame EXCEPT !.fn = "numa_error", !.where = where, !.olde = e]
          /\ entry' = [errno |-> e, logLen |-> Len(log), clobbered |-> FALSE]
    /\ pc' = "error_report"
    /\ UNCHANGED <<log, origin>>
    /\ UNCHANGED apiVars

\* elog(WARNING, "libnuma: ERROR: %s", where)
ErrorReport ==
    /\ pc = "error_report"
    /\ LET r == numa_error_report(frame.where)
       IN  /\ log' = r.log
           /\ pc' = IF r.returns THEN "error_restore" ELSE "aborted"
    /\ origin' = Append(origin, 0)
    /\ Clobber
    /\ UNCHANGED frame
    /\ UNCHANGED apiVars

\* errno = olde; and numa_error returns
ErrorRestore ==
    /\ pc = "error_restore"
    /\ errno' = numa_error_restore(frame.olde)
    /\ pc' = "returned"
    /\ UNCHANGED <<log, frame, entry, origin>>
    /\ UNCHANGED apiVars

\* libnuma goes on after the adapter has returned.
LibContinues ==
    /\ pc = "returned"
    /\ pc' = "idle"
    /\ frame' = NoFrame
    /\ UNCHANGED <<errno, log, entry, origin>>
    /\ UNCHANGED apiVars

(***************************************************************************)
(* Specifications.                                                         *)
(***************************************************************************)
LogIdle ==
    /\ errno = 0
    /\ log = <<>>
    /\ pc = "idle"
    /\ frame = NoFrame
    /\ entry = [errno |-> 0, logLen |-> 0, clobbered |-> FALSE]
    /\ origin = <<>>

\* Spec follows the routines over every NUMA configuration of the host; the
\* page-size side, which no NUMA routine reads, is varied by SpecPage.
PlainPages(h) ==
    /\ ~h.win32
    /\ ~h.sysconfFails
    /\ h.osPageSize = 2
    /\ h.hugePageSize = 2 ^ (MaxPageExp + 1)
    /\ h.huge_pages_status \in {"HUGE_PAGES_OFF", "HUGE_PAGES_ON"}

PlainNuma(h) ==
    h.build = "libnuma" => (h.kernelNuma /\ h.maxConfiguredNode = MaxNode)

ApiIdle ==
    /\ status = [i \in 1..MaxPages |-> -1]
    /\ call = NoCall
    /\ first = [op \in {"pg_numa_init", "pg_numa_available"} |-> NotYet]

Init ==
    /\ host \in {h \in Hosts : PlainPages(h)}
    /\ pageNode \in Placements(host)
    /\ ApiIdle
    /\ LogIdle

InitPage ==
    /\ host \in {h \in Hosts : PlainNuma(h)}
    /\ pageNode = [a \in Addrs |-> 0]
    /\ ApiIdle
    /\ LogIdle

Next ==
    \/ CallInit
    \/ CallAvailable
    \/ CallQueryPages
    \/ CallGetMaxNode
    \/ CallGetPagesize

Spec == Init /\ [][Next]_vars

SpecPage == InitPage /\ [][Next]_vars

\* The adapters exist only in a backend built with libnuma.
InitLog ==
    /\ host \in {h \in Hosts : /\ h.build = "libnuma"
                               /\ PlainNuma(h)
                               /\ PlainPages(h)
                               /\ h.huge_pages_status = "HUGE_PAGES_OFF"}
    /\ pageNode = [a \in Addrs |-> 0]
    /\ ApiIdle
    /\ errno \in Errnos
    /\ log = <<>>
    /\ pc = "idle"
    /\ frame = NoFrame
    /\ entry = [errno |-> 0, logLen |-> 0, clobbered |-> FALSE]
    /\ origin = <<>>

NextLog ==
    \/ LibCallsWarn
    \/ WarnInit
    \/ WarnAppend
    \/ WarnEnlarge
    \/ WarnReport
    \/ WarnRestore
    \/ LibCallsError
    \/ ErrorReport
    \/ ErrorRestore
    \/ LibContinues

SpecLog == InitLog /\ [][NextLog]_vars

(***************************************************************************)
(* Properties.                                                             *)
(***************************************************************************)
InitialStatus == [i \in 1..MaxPages |-> -1]
LastMsg == log[Len(log)]
HugeOn == host.huge_pages_status = "HUGE_PAGES_ON"

\* C1: pg_numa_init returns -1 in the build without libnuma and the value of
\* numa_available() in the libnuma build; pg_numa_available returns false
\* exactly when pg_numa_init returns -1 and true otherwise.
C1_AvailabilitySentinel ==
    /\ call.op = "pg_numa_init" =>
          call.ret = (IF host.build = "stub" THEN -1 ELSE numa_available)
    /\ call.op = "pg_numa_available" =>
          /\ call.ret \in {0, 1}
          /\ call.ret = 0 <=> (host.build = "stub" \/ numa_available = -1)
          /\ first["pg_numa_init"].set =>
                (call.ret = 0 <=> first["pg_numa_init"].val = -1)

C1_Witness ==
    /\ host.build = "libnuma"
    /\ call.op = "pg_numa_available"
    /\ call.ret = 0
    /\ first["pg_numa_init"].set
    /\ first["pg_numa_init"].val = -1

\* C2: whenever the availability check returns -1, in either build,
\* pg_numa_get_max_node returns 0; and it never returns a negative value.
C2_MaxNodeZeroWhenUnavailable ==
    call.op = "pg_numa_get_max_node" =>
        /\ call.ret >= 0
        /\ pg_numa_init = -1 => call.ret = 0

\* C3: in the build without libnuma every pg_numa_query_pages call returns 0
\* and leaves every entry of the caller's status array unchanged.
C3_StubQueryReportsNothing ==
    [][(call'.op = "pg_numa_query_pages" /\ host.build = "stub") =>
          (call'.ret = 0 /\ status' = status)]_vars

C3_Witness ==
    /\ host.build = "stub"
    /\ call.op = "pg_numa_query_pages"
    /\ call.args.count >= 1
    /\ call.args.pid = 2
    /\ call.ret = 0
    /\ status = InitialStatus

\* C4: pg_numa_get_pagesize always returns a positive power of two, whatever
\* the page-size lookup returns (its failure value included) and whatever
\* huge_pages_status is.
C4_PagesizePowerOfTwo ==
    call.op = "pg_numa_get_pagesize" => (call.ret > 0 /\ IsPowerOfTwo(call.ret))

\* C5: pg_numa_get_pagesize returns the operating system's page size when
\* huge_pages_status is not HUGE_PAGES_ON and the huge page size when it is;
\* the result is never smaller than the operating system's page size.
C5_PagesizeIsOsOrHuge ==
    call.op = "pg_numa_get_pagesize" =>
        /\ call.ret = (IF HugeOn THEN host.hugePageSize ELSE host.osPageSize)
        /\ call.ret >= host.osPageSize

\* C6: when numa_warn or numa_error returns, errno has the value it had when
\* the adapter was entered, whatever the steps in between left in it.
C6_ErrnoPreserved ==
    pc = "returned" => errno = entry.errno

C6_Witness ==
    /\ pc = "returned"
    /\ frame.fn = "numa_warn"
    /\ entry.clobbered
    /\ entry.errno # 0
    /\ errno = entry.errno

\* C7: the diagnostic numa_warn emits carries the warning number num the
\* library passed in: two warnings with different numbers never yield the
\* same diagnostic.
C7_DiagnosticCarriesNum ==
    \A i, j \in DOMAIN log :
        (origin[i] # 0 /\ origin[j] # 0 /\ log[i] = log[j]) => origin[i] = origin[j]

\* C8: each call of numa_warn and of numa_error emits exactly one message, at
\* level WARNING, and control comes back to the library: no call aborts.
C8_OneWarningThenReturn ==
    /\ pc # "aborted"
    /\ pc # "idle" => Len(log) \in {entry.logLen, entry.logLen + 1}
    /\ pc = "returned" =>
          /\ Len(log) = entry.logLen + 1
          /\ LastMsg.elevel = WARNING
    /\ pc \notin {"idle", "returned"} => ENABLED NextLog

C8_Witness ==
    /\ pc = "returned"
    /\ frame.fn = "numa_error"
    /\ entry.logLen = 1
    /\ Len(log) = 2
    /\ log[1].text.prefix = "libnuma: WARNING: "
    /\ log[2].text.prefix = "libnuma: ERROR: "
    /\ log[2].elevel = WARNING

\* C9: no call changes the host configuration or the placement of any page
\* (what every routine's result is computed from), and every call of an
\* availability routine returns what the first call of that routine returned.
C9_StatelessAndStable ==
    [][/\ host' = host
       /\ pageNode' = pageNode
       /\ (call'.op \in DOMAIN first /\ first[call'.op].set) =>
             call'.ret = first[call'.op].val]_vars

C9_Witness ==
    /\ host.build = "libnuma"
    /\ call.op = "pg_numa_init"
    /\ first["pg_numa_init"].set
    /\ first["pg_numa_available"].set
    /\ status # InitialStatus
    /\ call.ret = first["pg_numa_init"].val

\* C10 as claimed: in the libnuma build, after every pg_numa_query_pages call
\* no page has moved, the return value is the library's, and each of the
\* count status entries holds the NUMA node hosting the page.
C10_EveryEntryIsHostingNode ==
    [][(call'.op = "pg_numa_query_pages" /\ host.build = "libnuma") =>
          /\ pageNode' = pageNode
          /\ call'.ret = (IF host.kernelNuma /\ call'.args.pid \in LivePids THEN 0 ELSE -1)
          /\ \A i \in 1..call'.args.count :
                /\ pageNode[call'.args.pages[i]] \in 0..MaxNode
                /\ status'[i] = pageNode[call'.args.pages[i]]]_vars

\* C10 as amended: no page moves and the return value is the library's; when
\* the library call succeeds each of the count entries holds the node hosting
\* the page, or -ENOENT for a page no node hosts, and the entries after them
\* are unchanged; when it fails the whole status array is unchanged.
C10_PureQuery ==
    [][(call'.op = "pg_numa_query_pages" /\ host.build = "libnuma") =>
          LET a == call'.args
              ok == host.kernelNuma /\ a.pid \in LivePids
          IN  /\ pageNode' = pageNode
              /\ call'.ret = (IF ok THEN 0 ELSE -1)
              /\ ok => \A i \in 1..MaxPages :
                          status'[i] =
                             IF i > a.count THEN status[i]
                             ELSE IF pageNode[a.pages[i]] = NotPresent THEN -ENOENT
                             ELSE pageNode[a.pages[i]]
              /\ ~ok => status' = status]_vars

C10_Witness ==
    /\ host.build = "libnuma"
    /\ call.op = "pg_numa_query_pages"
    /\ call.args.count = MaxPages
    /\ call.ret = 0
    /\ status[1] = -ENOENT
    /\ status[MaxPages] \in 0..MaxNode
    /\ pageNode[1] = NotPresent

====
